---- MODULE Spec2Model ----
(***************************************************************************)
(* The throw/catch mechanism of gdb/exceptions.c: the stack of catchers,   *)
(* the catcher state machine, the throw primitives and the catch_*         *)
(* entry points, with the C call stack made explicit so that SIGSETJMP /   *)
(* SIGLONGJMP are a truncation of that stack.                              *)
(***************************************************************************)
EXTENDS Integers, Sequences, FiniteSets, TLC

\* ------------------------------------------------------------ bounds
\* Catch entry points invoked in one run (nested or sequential).
MaxCalls == 2
\* Cleanups registered by make_cleanup in one run.
MaxCleanups == 1

\* ------------------------------------------------- program constants
NULL == 0

\* enum return_reason, enum errors and the masks (exceptions.h / defs.h).
RETURN_QUIT == -2
RETURN_ERROR == -1
NO_ERROR == 0
GENERIC_ERROR == 1
NOT_FOUND_ERROR == 2

RETURN_MASK(reason) == 2 ^ (0 - reason)
RETURN_MASK_QUIT == RETURN_MASK(RETURN_QUIT)
RETURN_MASK_ERROR == RETURN_MASK(RETURN_ERROR)
RETURN_MASK_ALL == RETURN_MASK_QUIT + RETURN_MASK_ERROR

\* The C operator & on non-negative ints.
RECURSIVE BitAnd(_, _)
BitAnd(a, b) ==
  IF a = 0 \/ b = 0 THEN 0
  ELSE (a % 2) * (b % 2) + 2 * BitAnd(a \div 2, b \div 2)

exception_none == [reason |-> 0, error |-> NO_ERROR, message |-> NULL]

\* enum catcher_state, enum catcher_action.
CATCHER_CREATED == "CATCHER_CREATED"
CATCHER_RUNNING == "CATCHER_RUNNING"
CATCHER_RUNNING_1 == "CATCHER_RUNNING_1"
CATCHER_ABORTING == "CATCHER_ABORTING"
CatcherStates ==
  {CATCHER_CREATED, CATCHER_RUNNING, CATCHER_RUNNING_1, CATCHER_ABORTING}

CATCH_ITER == "CATCH_ITER"
CATCH_ITER_1 == "CATCH_ITER_1"
CATCH_THROWING == "CATCH_THROWING"
CatcherActions == {CATCH_ITER, CATCH_ITER_1, CATCH_THROWING}

\* ----------------------------------------------------- input domains
Reasons == {RETURN_QUIT, RETURN_ERROR}
Masks == {RETURN_MASK_ERROR, RETURN_MASK_QUIT, RETURN_MASK_ALL}
Errors == {GENERIC_ERROR, NOT_FOUND_ERROR}
\* struct ui_out objects a caller can hand to a Catch.
Sinks == {"cli_uiout", "mi_uiout"}
\* Values a protected operation can return.
Vals == {-1, 0, 1}
\* printf formats (token lists) and the one string argument they take.
Fmts == {<<"bad value">>, <<"bad ", "%s">>}
Args == {"value", "addr"}

\* What an uninitialised `volatile struct exception' local can hold before
\* catcher_init writes it.
StackGarbage ==
  {[reason |-> RETURN_ERROR, error |-> GENERIC_ERROR, message |-> 1],
   [reason |-> 1, error |-> NOT_FOUND_ERROR, message |-> NULL]}

\* xstrvprintf: the format with every %s replaced by the argument.
RECURSIVE xstrvprintf(_, _)
xstrvprintf(fmt, ap) ==
  IF fmt = <<>> THEN ""
  ELSE (IF Head(fmt) = "%s" THEN ap ELSE Head(fmt)) \o xstrvprintf(Tail(fmt), ap)

Texts == {xstrvprintf(f, a) : f \in Fmts, a \in Args}

\* ------------------------------------------------------------- state
VARIABLES
  current_catcher,  \* static struct catcher *current_catcher (NULL or an id)
  catchers,         \* the allocated struct catcher objects, by id
  uiout,            \* the global struct ui_out *uiout
  cleanup_chain,    \* the cleanup chain save_cleanups / do_cleanups act on
  last_message,     \* static char *last_message: [id, text] of the live buffer
  callstack,        \* the C call stack: one record per active function
  outcome,          \* running, or how the process ended
  printed,          \* what print_any_exception wrote to gdb_stderr since
                    \* the last call of a throw primitive
  cleanups_done,    \* cleanups run by do_cleanups so far
  ncalls,           \* Catch entry points invoked so far
  ncleanups,        \* cleanups registered so far
  pending,          \* history: the throw in flight, as it was when it began
  quit_flag,        \* int quit_flag: an interrupt is pending
  immediate_quit,   \* int immediate_quit
  stop_bpstat,      \* the breakpoint commands queued in stop_bpstat
  current_display   \* the display being done, -1 if none

\* The globals of other files throw_exception resets.
hooks == <<quit_flag, immediate_quit, stop_bpstat, current_display>>

vars ==
  <<current_catcher, catchers, uiout, cleanup_chain, last_message, callstack,
    outcome, printed, cleanups_done, ncalls, ncleanups, pending, hooks>>

\* The functions of exceptions.c that own an exception slot and a drive loop.
CatchFns ==
  {"catch_exception", "catch_exceptions_with_msg", "catch_errors",
   "catch_command_errors"}
\* Those whose protected operation returns an int.
IntFns == {"catch_exceptions_with_msg", "catch_errors"}

Unset == "<unset>"
NullText == "<null>"

\* What the globals were when a Catch entry point was called (history).
NoEntry ==
  [current_catcher |-> NULL, catchers |-> <<>>, uiout |-> "",
   cleanup_chain |-> <<>>]

\* What a caller holds once a Catch has returned to it: the C return value
\* (val or exception), *gdberrmsg, and, for the properties, the Catch's final
\* locals and what the globals were when it was invoked.
NoRet ==
  [fn |-> "none", val |-> 0, exception |-> exception_none, gdberrmsg |-> Unset,
   slot |-> exception_none, opval |-> 0, mask |-> 0, func_uiout |-> "",
   want_msg |-> FALSE, ran |-> 0, entry |-> NoEntry]

\* History: the last call of catcher_state_machine an activation made: the
\* state of the top catcher and the catcher stack on entry, the action, and
\* what the call did (kind) and returned (ret).
NoSmCall ==
  [state |-> "none", action |-> "none", kind |-> "none", ret |-> 0,
   current_catcher |-> NULL, catchers |-> <<>>]

\* One activation record of the C stack.
Frame(fn, pc) ==
  [fn |-> fn, pc |-> pc,
   exception |-> exception_none,  \* volatile struct exception exception
   val |-> 0,                     \* volatile int val
   mask |-> 0, func_uiout |-> "", gdberrmsg |-> FALSE, errstring |-> "",
   thrown |-> exception_none,     \* throw_exception's parameter
   ret |-> NoRet,
   held |-> exception_none,       \* the caller's copy of the struct exception
                                  \* catch_exception last returned to it
   held_text |-> NullText,        \* history: the text it was thrown with
   sm |-> NoSmCall,
   ran |-> 0,                     \* times the drive loop invoked func
   opval |-> 0,                   \* what func returned, if it did
   entry |-> NoEntry]

\* History: a throw primitive was called and no caller of a Catch has gone
\* on since; the exception, its text, the activation of the innermost
\* catcher whose mask contains its reason (0 if none), and the catchers and
\* the stack as they were at the call.
NoPending ==
  [active |-> FALSE, exception |-> exception_none, text |-> NullText,
   target |-> 0, current_catcher |-> NULL, catchers |-> <<>>,
   callstack |-> <<>>]

Running == [kind |-> "running", msg |-> ""]
internal_error(msg) == [kind |-> "internal_error", msg |-> msg]
\* A dereference of the null current_catcher: what the build can do with it.
NullDeref == {[kind |-> "SIGSEGV", msg |-> ""], internal_error("bad switch")}

Top == Len(callstack)
top == callstack[Top]

\* The globals catcher_init, catcher_pop and the state machine act on.
Globals ==
  [current_catcher |-> current_catcher, catchers |-> catchers, uiout |-> uiout,
   cleanup_chain |-> cleanup_chain]

\* XZALLOC: an id no live catcher has.
XZALLOC(cs) == CHOOSE id \in 1..(Cardinality(DOMAIN cs) + 1) : id \notin DOMAIN cs

\* save_cleanups / restore_cleanups / do_cleanups (ALL_CLEANUPS) of utils.c.
save_cleanups(g) == [saved |-> g.cleanup_chain, chain |-> <<>>]
restore_cleanups(chain) == chain
do_cleanups(chain) == <<>>
\* bpstat_clear_actions (breakpoint.c) and disable_current_display
\* (printcmd.c): what they leave in stop_bpstat and current_display.
bpstat_clear_actions(bs) == <<>>
disable_current_display(d) == -1

\* catcher_init's three stores through `exception': what the slot holds
\* after them, whatever it held before.
\* catcher_init without the stores: the slot keeps what the stack held.
catcher_init_exception_stale(old) == old

catcher_init_exception(old) ==
  [old EXCEPT !.reason = 0, !.error = NO_ERROR, !.message = NULL]

\* catcher_init, less the write of the caller's slot (see CatcherInit):
\* `exception' is the address of the slot, the index of its activation.
catcher_init(g, func_uiout, exception, mask) ==
  LET new_catcher == XZALLOC(g.catchers)
      rec == [state |-> CATCHER_CREATED, buf |-> NULL, exception |-> exception,
              mask |-> mask, saved_uiout |-> g.uiout,
              saved_cleanup_chain |-> save_cleanups(g).saved,
              prev |-> g.current_catcher]
  IN [current_catcher |-> new_catcher,
      catchers |-> [id \in DOMAIN g.catchers \cup {new_catcher} |->
                      IF id = new_catcher THEN rec ELSE g.catchers[id]],
      uiout |-> func_uiout,
      cleanup_chain |-> save_cleanups(g).chain]

\* catcher_pop without the unlink: the popped frame stays on top.
catcher_pop_no_unlink(g) ==
  LET old_catcher == g.current_catcher
  IN [current_catcher |-> old_catcher,
      catchers |-> g.catchers,
      uiout |-> g.catchers[old_catcher].saved_uiout,
      cleanup_chain |->
        restore_cleanups(g.catchers[old_catcher].saved_cleanup_chain)]

\* catcher_pop without the restore of uiout.
catcher_pop_keeps_uiout(g) ==
  LET old_catcher == g.current_catcher
  IN [current_catcher |-> g.catchers[old_catcher].prev,
      catchers |-> [id \in DOMAIN g.catchers \ {old_catcher} |-> g.catchers[id]],
      uiout |-> g.uiout,
      cleanup_chain |->
        restore_cleanups(g.catchers[old_catcher].saved_cleanup_chain)]

\* catcher_pop without restore_cleanups.
catcher_pop_keeps_cleanups(g) ==
  LET old_catcher == g.current_catcher
  IN [current_catcher |-> g.catchers[old_catcher].prev,
      catchers |-> [id \in DOMAIN g.catchers \ {old_catcher} |-> g.catchers[id]],
      uiout |-> g.catchers[old_catcher].saved_uiout,
      cleanup_chain |-> g.cleanup_chain]

catcher_pop(g) ==
  LET old_catcher == g.current_catcher
  IN [current_catcher |-> g.catchers[old_catcher].prev,
      catchers |-> [id \in DOMAIN g.catchers \ {old_catcher} |-> g.catchers[id]],
      uiout |-> g.catchers[old_catcher].saved_uiout,
      cleanup_chain |->
        restore_cleanups(g.catchers[old_catcher].saved_cleanup_chain)]

\* A transition that leaves current_catcher->state as it is.
SetStateDropped(g, st) == g

SetState(g, st) ==
  [g EXCEPT !.catchers[g.current_catcher].state = st]

\* The test of the ABORTING case: mask & RETURN_MASK (exception.reason).
ClaimsAll(mask, reason) == TRUE

Claims(mask, reason) == BitAnd(mask, RETURN_MASK(reason)) # 0

\* What catcher_state_machine does: the globals after it, and whether it
\* returned (ret), called internal_error or called throw_exception.
\* A return that always tells the loop to go on.
SmReturnContinue(g, r) ==
  [g |-> g, kind |-> "return", ret |-> 1, msg |-> "", exception |-> exception_none]

SmReturn(g, r) ==
  [g |-> g, kind |-> "return", ret |-> r, msg |-> "", exception |-> exception_none]
SmError(g, msg) ==
  [g |-> g, kind |-> "internal_error", ret |-> 0, msg |-> msg,
   exception |-> exception_none]
\* A relay that throws a new exception of the same reason.
SmThrowFresh(g, e) ==
  [g |-> g, kind |-> "throw_exception", ret |-> 0, msg |-> "",
   exception |-> [e EXCEPT !.error = NO_ERROR, !.message = NULL]]

SmThrow(g, e) ==
  [g |-> g, kind |-> "throw_exception", ret |-> 0, msg |-> "", exception |-> e]

\* catcher_state_machine (action), with mem the stack the frame's exception
\* pointer points into.  current_catcher is not NULL here.
catcher_state_machine(g, mem, action) ==
  LET st == g.catchers[g.current_catcher].state
  IN CASE st = CATCHER_CREATED ->
            IF action = CATCH_ITER THEN SmReturn(SetState(g, CATCHER_RUNNING), 1)
            ELSE SmError(g, "bad state")
       [] st = CATCHER_RUNNING ->
            CASE action = CATCH_ITER -> SmReturn(catcher_pop(g), 0)
              [] action = CATCH_ITER_1 ->
                   SmReturn(SetState(g, CATCHER_RUNNING_1), 1)
              [] action = CATCH_THROWING ->
                   SmReturn(SetState(g, CATCHER_ABORTING), 1)
              [] OTHER -> SmError(g, "bad switch")
       [] st = CATCHER_RUNNING_1 ->
            CASE action = CATCH_ITER -> SmReturn(catcher_pop(g), 0)
              [] action = CATCH_ITER_1 ->
                   SmReturn(SetState(g, CATCHER_RUNNING), 0)
              [] action = CATCH_THROWING ->
                   SmReturn(SetState(g, CATCHER_ABORTING), 1)
              [] OTHER -> SmError(g, "bad switch")
       [] st = CATCHER_ABORTING ->
            IF action = CATCH_ITER
            THEN LET exception ==
                       mem[g.catchers[g.current_catcher].exception].exception
                 IN IF Claims(g.catchers[g.current_catcher].mask,
                              exception.reason)
                    THEN SmReturn(catcher_pop(g), 0)
                    ELSE SmThrow(catcher_pop(g), exception)
            ELSE SmError(g, "bad state")
       [] OTHER -> SmError(g, "bad switch")

\* The history record of the call catcher_state_machine (action) made with
\* globals g, which did r.
SmCall(g, action, r) ==
  [state |-> g.catchers[g.current_catcher].state, action |-> action,
   kind |-> r.kind, ret |-> r.ret,
   current_catcher |-> g.current_catcher, catchers |-> g.catchers]

\* ------------------------------------------------------------ actions
Live == outcome = Running
\* The running function is a protected operation (or the top-level caller,
\* the bottom of the stack), between two of its own statements.
InFunc == Live /\ top.fn = "func" /\ top.pc = "run"

SetGlobals(g) ==
  /\ current_catcher' = g.current_catcher
  /\ catchers' = g.catchers
  /\ uiout' = g.uiout
  /\ cleanup_chain' = g.cleanup_chain

\* A call of one of the Catch entry points: its activation is pushed with
\* its locals as the declarations leave them (exception uninitialised,
\* val = 0).
Call(fn, func_uiout, gdberrmsg, errstring, mask, garbage) ==
  /\ InFunc
  /\ ncalls < MaxCalls
  /\ ncalls' = ncalls + 1
  /\ callstack' =
       Append(callstack,
              [Frame(fn, "catcher_init") EXCEPT
                 !.exception = garbage, !.mask = mask,
                 !.func_uiout = func_uiout, !.gdberrmsg = gdberrmsg,
                 !.errstring = errstring,
                 !.entry = [current_catcher |-> current_catcher,
                            catchers |-> catchers, uiout |-> uiout,
                            cleanup_chain |-> cleanup_chain]])
  /\ UNCHANGED <<current_catcher, catchers, uiout, cleanup_chain, last_message,
                 outcome, printed, cleanups_done, ncleanups, pending>>
  /\ UNCHANGED hooks

catch_exception ==
  \E s \in Sinks, m \in Masks, x \in StackGarbage :
    Call("catch_exception", s, FALSE, "", m, x)

catch_exceptions_with_msg ==
  \E s \in Sinks, m \in Masks, x \in StackGarbage :
    Call("catch_exceptions_with_msg", s, TRUE, "", m, x)

\* catch_exceptions: catch_exceptions_with_msg with gdberrmsg NULL.
catch_exceptions ==
  \E s \in Sinks, m \in Masks, x \in StackGarbage :
    Call("catch_exceptions_with_msg", s, FALSE, "", m, x)

\* catch_errors and catch_command_errors hand the global uiout to
\* catcher_init.
catch_errors ==
  \E m \in Masks, x \in StackGarbage :
    Call("catch_errors", uiout, FALSE, "Error: ", m, x)

catch_command_errors ==
  \E m \in Masks, x \in StackGarbage :
    Call("catch_command_errors", uiout, FALSE, "", m, x)

\* catcher_init (..., &exception, mask) followed by SIGSETJMP ((*catch)),
\* which records the calling activation in the new catcher's buf.
CatcherInit ==
  /\ Live
  /\ top.fn \in CatchFns
  /\ top.pc = "catcher_init"
  /\ LET g == catcher_init(Globals, top.func_uiout, Top, top.mask)
     IN SetGlobals([g EXCEPT !.catchers[g.current_catcher].buf = Top])
  /\ callstack' = [callstack EXCEPT
                     ![Top].exception = catcher_init_exception(@),
                     ![Top].pc = "loop"]
  /\ UNCHANGED <<last_message, outcome, printed, cleanups_done, ncalls,
                 ncleanups, pending>>
  /\ UNCHANGED hooks

\* The condition of the drive loop, catcher_state_machine (CATCH_ITER), and
\* what follows it: the call of func, the end of the loop, the relay's
\* throw_exception, or internal_error.
DriveLoop ==
  /\ Live
  /\ top.fn \in CatchFns
  /\ top.pc = "loop"
  /\ LET r == catcher_state_machine(Globals, callstack, CATCH_ITER)
         called == [callstack EXCEPT
                      ![Top].sm = SmCall(Globals, CATCH_ITER, r)]
     IN /\ SetGlobals(r.g)
        /\ CASE r.kind = "return" /\ r.ret # 0 ->
                  /\ callstack' =
                       Append([called EXCEPT ![Top].pc = "call",
                                             ![Top].ran = @ + 1],
                              Frame("func", "run"))
                  /\ outcome' = outcome
             [] r.kind = "return" /\ r.ret = 0 ->
                  /\ callstack' =
                       [called EXCEPT ![Top].pc =
                          IF top.fn = "catch_exception" THEN "return" ELSE "print"]
                  /\ outcome' = outcome
             [] r.kind = "throw_exception" ->
                  /\ callstack' = [called EXCEPT ![Top].pc = "throw_exception",
                                                 ![Top].thrown = r.exception]
                  /\ outcome' = outcome
             [] OTHER ->
                  /\ callstack' = called
                  /\ outcome' = internal_error(r.msg)
  /\ UNCHANGED <<last_message, printed, cleanups_done, ncalls, ncleanups, pending>>
  /\ UNCHANGED hooks

\* func returns v to the drive loop that called it (val = (*func) (...) in
\* catch_exceptions_with_msg and catch_errors; the other two drop the value).
FuncReturn ==
  /\ InFunc
  /\ Top > 1
  /\ \E v \in Vals :
       /\ callstack[Top - 1].fn \in IntFns \/ v = 0
       /\ callstack' =
            [SubSeq(callstack, 1, Top - 1) EXCEPT
               ![Top - 1].pc = "loop",
               ![Top - 1].opval = v,
               ![Top - 1].val = IF callstack[Top - 1].fn \in IntFns THEN v ELSE @]
  /\ UNCHANGED <<current_catcher, catchers, uiout, cleanup_chain, last_message,
                 outcome, printed, cleanups_done, ncalls, ncleanups, pending>>
  /\ UNCHANGED hooks

\* make_cleanup: the running operation registers a cleanup.
make_cleanup ==
  /\ InFunc
  /\ ncleanups < MaxCleanups
  /\ ncleanups' = ncleanups + 1
  /\ cleanup_chain' = Append(cleanup_chain, ncleanups + 1)
  /\ UNCHANGED <<current_catcher, catchers, uiout, last_message, callstack,
                 outcome, printed, cleanups_done, ncalls, pending>>
  /\ UNCHANGED hooks

\* The text a char * points at.  Only the buffer last_message owns is live;
\* reading through any other pointer is a read of freed memory.
Deref(ptr) ==
  IF ptr = last_message.id THEN {last_message.text}
  ELSE Texts \cup {"<freed>"}

\* The innermost catcher, from c outwards, whose mask contains reason.
RECURSIVE Claimer(_, _, _)
Claimer(cs, c, reason) ==
  IF c = NULL THEN NULL
  ELSE IF BitAnd(cs[c].mask, RETURN_MASK(reason)) # 0 THEN c
  ELSE Claimer(cs, cs[c].prev, reason)

\* A throw primitive has built exception e and calls throw_exception (e).
Throw(e, lm) ==
  /\ callstack' = [callstack EXCEPT ![Top].pc = "throw_exception",
                                    ![Top].thrown = e,
                                    ![Top].ret = NoRet]
  /\ last_message' = lm
  /\ pending' =
       [active |-> TRUE, exception |-> e,
        text |-> IF e.message = NULL THEN NullText
                 ELSE IF e.message = lm.id THEN lm.text ELSE "<freed>",
        target |-> LET c == Claimer(catchers, current_catcher, e.reason)
                   IN IF c = NULL THEN 0 ELSE catchers[c].exception,
        current_catcher |-> current_catcher, catchers |-> catchers,
        callstack |-> callstack]
  /\ printed' = <<>>
  /\ UNCHANGED <<current_catcher, catchers, uiout, cleanup_chain, outcome,
                 cleanups_done, ncalls, ncleanups>>
  /\ UNCHANGED hooks

\* throw_reason: the exception it builds (memset, reason, error).
\* throw_reason without `exception.reason = reason'.
throw_reason_exception_unset_reason(reason) ==
  [reason |-> 0,
   error |-> IF reason = RETURN_ERROR THEN GENERIC_ERROR ELSE NO_ERROR,
   message |-> NULL]

throw_reason_exception(reason) ==
  [reason |-> reason,
   error |-> IF reason = RETURN_ERROR THEN GENERIC_ERROR ELSE NO_ERROR,
   message |-> NULL]

throw_reason ==
  /\ InFunc
  /\ \E reason \in Reasons : Throw(throw_reason_exception(reason), last_message)

\* throw_it: xfree (last_message); last_message = xstrvprintf (fmt, ap); the
\* exception points at the new buffer.
throw_it(reason, error, fmt, ap) ==
  LET lm == [id |-> last_message.id + 1, text |-> xstrvprintf(fmt, ap)]
  IN Throw([reason |-> reason, error |-> error, message |-> lm.id], lm)

throw_verror ==
  /\ InFunc
  /\ \E error \in Errors, fmt \in Fmts, ap \in Args :
       throw_it(RETURN_ERROR, error, fmt, ap)

throw_error ==
  /\ InFunc
  /\ \E error \in Errors, fmt \in Fmts, args \in Args :
       throw_it(RETURN_ERROR, error, fmt, args)

throw_vfatal ==
  /\ InFunc
  /\ \E fmt \in Fmts, ap \in Args : throw_it(RETURN_QUIT, NO_ERROR, fmt, ap)

\* throw_exception called directly: a caller of catch_exception passes on
\* the exception it was just handed.
rethrow ==
  /\ Live
  /\ top.fn = "func"
  /\ top.pc = "after_catch"
  /\ top.ret.fn = "catch_exception"
  /\ top.ret.exception.reason < 0
  /\ Throw(top.ret.exception, last_message)

InThrow(pc) == Live /\ top.pc = pc

\* The statements of throw_exception in their order: the one after pc.
\* The state machine and the store ahead of the resets and the cleanups.
throw_exception_pc_state_first(pc) ==
  CASE pc = "throw_exception" -> "catcher_state_machine"
    [] pc = "catcher_state_machine" -> "store"
    [] pc = "store" -> "bpstat_clear_actions"
    [] pc = "bpstat_clear_actions" -> "disable_current_display"
    [] pc = "disable_current_display" -> "do_cleanups"
    [] OTHER -> "longjmp"

throw_exception_pc(pc) ==
  CASE pc = "throw_exception" -> "bpstat_clear_actions"
    [] pc = "bpstat_clear_actions" -> "disable_current_display"
    [] pc = "disable_current_display" -> "do_cleanups"
    [] pc = "do_cleanups" -> "catcher_state_machine"
    [] pc = "catcher_state_machine" -> "store"
    [] OTHER -> "longjmp"

ThrowStep == callstack' = [callstack EXCEPT ![Top].pc = throw_exception_pc(@)]

\* quit_flag = 0; immediate_quit = 0.
throw_exception_flags ==
  /\ InThrow("throw_exception")
  /\ quit_flag' = 0
  /\ immediate_quit' = 0
  /\ ThrowStep
  /\ UNCHANGED <<current_catcher, catchers, uiout, cleanup_chain, last_message,
                 outcome, printed, cleanups_done, ncalls, ncleanups, pending,
                 stop_bpstat, current_display>>

\* bpstat_clear_actions (stop_bpstat).
throw_exception_bpstat ==
  /\ InThrow("bpstat_clear_actions")
  /\ stop_bpstat' = bpstat_clear_actions(stop_bpstat)
  /\ ThrowStep
  /\ UNCHANGED <<current_catcher, catchers, uiout, cleanup_chain, last_message,
                 outcome, printed, cleanups_done, ncalls, ncleanups, pending,
                 quit_flag, immediate_quit, current_display>>

\* disable_current_display ().
throw_exception_display ==
  /\ InThrow("disable_current_display")
  /\ current_display' = disable_current_display(current_display)
  /\ ThrowStep
  /\ UNCHANGED <<current_catcher, catchers, uiout, cleanup_chain, last_message,
                 outcome, printed, cleanups_done, ncalls, ncleanups, pending,
                 quit_flag, immediate_quit, stop_bpstat>>

\* do_cleanups (ALL_CLEANUPS) runs and discards the current chain (the two
\* exec cleanup chains that may follow it are other chains of utils.c).
throw_exception_cleanups ==
  /\ InThrow("do_cleanups")
  /\ cleanups_done' = cleanups_done \cup {cleanup_chain[i] : i \in DOMAIN cleanup_chain}
  /\ cleanup_chain' = do_cleanups(cleanup_chain)
  /\ ThrowStep
  /\ UNCHANGED <<current_catcher, catchers, uiout, last_message, outcome,
                 printed, ncalls, ncleanups, pending>>
  /\ UNCHANGED hooks

\* catcher_state_machine (CATCH_THROWING).  With no catcher it reads
\* current_catcher->state through a null pointer.
throw_exception_state ==
  /\ InThrow("catcher_state_machine")
  /\ IF current_catcher = NULL
     THEN /\ outcome' \in NullDeref
          /\ UNCHANGED <<current_catcher, catchers, uiout, cleanup_chain, callstack>>
     ELSE LET r == catcher_state_machine(Globals, callstack, CATCH_THROWING)
              called == [callstack EXCEPT
                           ![Top].sm = SmCall(Globals, CATCH_THROWING, r)]
          IN /\ SetGlobals(r.g)
             /\ IF r.kind = "return"
                THEN /\ callstack' = [called EXCEPT
                                         ![Top].pc = throw_exception_pc(@)]
                     /\ outcome' = outcome
                ELSE /\ callstack' = called
                     /\ outcome' = internal_error(r.msg)
  /\ UNCHANGED <<last_message, printed, cleanups_done, ncalls, ncleanups, pending>>
  /\ UNCHANGED hooks

\* *current_catcher->exception = exception.
throw_exception_store ==
  /\ InThrow("store")
  /\ callstack' =
       [callstack EXCEPT ![Top].pc = throw_exception_pc(@),
                         ![catchers[current_catcher].exception].exception =
                            top.thrown]
  /\ UNCHANGED <<current_catcher, catchers, uiout, cleanup_chain, last_message,
                 outcome, printed, cleanups_done, ncalls, ncleanups, pending>>
  /\ UNCHANGED hooks

\* SIGLONGJMP (current_catcher->buf, exception.reason): the stack is cut
\* back to the activation that did the SIGSETJMP, which goes on to evaluate
\* the loop condition.
\* A longjmp that comes back to the thrower, which then goes on.
SIGLONGJMP_returns(stack, buf) ==
  [stack EXCEPT ![Len(stack)].pc = IF stack[Len(stack)].fn = "func"
                                   THEN "run" ELSE "return"]

SIGLONGJMP(stack, buf) == [SubSeq(stack, 1, buf) EXCEPT ![buf].pc = "loop"]

throw_exception_longjmp ==
  /\ InThrow("longjmp")
  /\ callstack' = SIGLONGJMP(callstack, catchers[current_catcher].buf)
  /\ UNCHANGED <<current_catcher, catchers, uiout, cleanup_chain, last_message,
                 outcome, printed, cleanups_done, ncalls, ncleanups, pending>>
  /\ UNCHANGED hooks

\* print_any_exception (gdb_stderr, prefix, e): a line of output when e is
\* an exception with a message, else nothing.
\* Printing whatever has a negative reason, message or not.
print_any_exception_no_message_test(out, prefix, e, text) ==
  IF e.reason < 0
  THEN Append(out, [prefix |-> prefix, text |-> text,
                    annotate |-> IF e.reason = RETURN_QUIT THEN "quit" ELSE "error"])
  ELSE out

print_any_exception(out, prefix, e, text) ==
  IF e.reason < 0 /\ e.message # NULL
  THEN Append(out, [prefix |-> prefix, text |-> text,
                    annotate |-> IF e.reason = RETURN_QUIT THEN "quit" ELSE "error"])
  ELSE out

CatchPrint ==
  /\ Live
  /\ top.fn \in CatchFns
  /\ top.pc = "print"
  /\ \E text \in (IF top.exception.message = NULL THEN {NullText}
                  ELSE Deref(top.exception.message)) :
       printed' = print_any_exception(printed, top.errstring, top.exception, text)
  /\ callstack' = [callstack EXCEPT ![Top].pc = "return"]
  /\ UNCHANGED <<current_catcher, catchers, uiout, cleanup_chain, last_message,
                 outcome, cleanups_done, ncalls, ncleanups, pending>>
  /\ UNCHANGED hooks

\* The two gdb_asserts of catch_exceptions_with_msg.
gdb_assert_val(val) == val >= 0
gdb_assert_reason(e) == e.reason <= 0

\* The value each Catch entry point returns, from its locals after the loop.
\* Returning val whether or not an exception was caught.
catch_exceptions_with_msg_value_ignores(e, val) == val

\* Returning a truth value that takes only positive values for true.
catch_errors_value_positive(e, val) ==
  IF e.reason # 0 THEN 0 ELSE IF val > 0 THEN 1 ELSE 0

\* Returning true whatever the slot holds.
catch_command_errors_value_true(e) == 1

catch_exceptions_with_msg_value(e, val) ==
  IF e.reason < 0 THEN e.reason ELSE val
catch_errors_value(e, val) ==
  IF e.reason # 0 THEN 0 ELSE val
catch_command_errors_value(e) ==
  IF e.reason < 0 THEN 0 ELSE 1
\* *gdberrmsg after catch_exceptions_with_msg: the xstrdup of the message,
\* NULL, or untouched.
gdberrmsg_value(e, gdberrmsg, text) ==
  IF e.reason < 0 /\ gdberrmsg
  THEN IF e.message # NULL THEN text ELSE NullText
  ELSE Unset

ReturnValue(a) ==
  CASE a.fn = "catch_exceptions_with_msg" ->
         catch_exceptions_with_msg_value(a.exception, a.val)
    [] a.fn = "catch_errors" -> catch_errors_value(a.exception, a.val)
    [] a.fn = "catch_command_errors" -> catch_command_errors_value(a.exception)
    [] OTHER -> 0

\* The rest of a Catch entry point after the loop (and the print): the
\* assertions, *gdberrmsg and the return to the caller.
CatchReturn ==
  /\ Live
  /\ top.fn \in CatchFns
  /\ top.pc = "return"
  /\ IF top.fn = "catch_exceptions_with_msg"
        /\ ~(gdb_assert_val(top.val) /\ gdb_assert_reason(top.exception))
     THEN /\ outcome' = internal_error(IF gdb_assert_val(top.val)
                                       THEN "exception.reason <= 0"
                                       ELSE "val >= 0")
          /\ callstack' = callstack
     ELSE /\ outcome' = outcome
          /\ \E text \in (IF top.fn = "catch_exceptions_with_msg" /\ top.gdberrmsg
                             /\ top.exception.reason < 0
                             /\ top.exception.message # NULL
                          THEN Deref(top.exception.message) ELSE {NullText}) :
               callstack' =
                 [SubSeq(callstack, 1, Top - 1) EXCEPT
                    ![Top - 1].pc = "after_catch",
                    ![Top - 1].ret =
                       [fn |-> top.fn,
                        val |-> ReturnValue(top),
                        exception |-> IF top.fn = "catch_exception"
                                      THEN top.exception ELSE exception_none,
                        gdberrmsg |-> IF top.fn = "catch_exceptions_with_msg"
                                      THEN gdberrmsg_value(top.exception,
                                                           top.gdberrmsg, text)
                                      ELSE Unset,
                        slot |-> top.exception, opval |-> top.opval,
                        mask |-> top.mask, func_uiout |-> top.func_uiout,
                        want_msg |-> top.gdberrmsg,
                        ran |-> top.ran, entry |-> top.entry]]
  /\ UNCHANGED <<current_catcher, catchers, uiout, cleanup_chain, last_message,
                 printed, cleanups_done, ncalls, ncleanups, pending>>
  /\ UNCHANGED hooks

\* The caller has looked at what the Catch returned and goes on, keeping
\* the struct exception if catch_exception handed it one.
FuncResume ==
  /\ Live
  /\ top.fn = "func"
  /\ top.pc = "after_catch"
  /\ callstack' =
       [callstack EXCEPT
          ![Top].pc = "run", ![Top].ret = NoRet,
          ![Top].held = IF top.ret.fn = "catch_exception"
                        THEN top.ret.exception ELSE @,
          ![Top].held_text = IF top.ret.fn = "catch_exception"
                             THEN (IF top.ret.exception.reason < 0
                                   THEN pending.text ELSE NullText)
                             ELSE @]
  /\ pending' = NoPending
  /\ UNCHANGED <<current_catcher, catchers, uiout, cleanup_chain, last_message,
                 outcome, printed, cleanups_done, ncalls, ncleanups>>
  /\ UNCHANGED hooks

Init ==
  /\ current_catcher = NULL
  /\ catchers = <<>>
  /\ uiout = "cli_uiout"
  /\ cleanup_chain = <<>>
  /\ last_message = [id |-> NULL, text |-> NullText]
  /\ callstack = <<Frame("func", "run")>>
  /\ outcome = Running
  /\ printed = <<>>
  /\ cleanups_done = {}
  /\ ncalls = 0
  /\ ncleanups = 0
  /\ pending = NoPending
  /\ quit_flag = 0
  /\ immediate_quit = 0
  /\ stop_bpstat = <<>>
  /\ current_display = -1

Next ==
  \/ catch_exception
  \/ catch_exceptions
  \/ catch_exceptions_with_msg
  \/ catch_errors
  \/ catch_command_errors
  \/ CatcherInit
  \/ DriveLoop
  \/ FuncReturn
  \/ make_cleanup
  \/ throw_reason
  \/ throw_verror
  \/ throw_error
  \/ throw_vfatal
  \/ rethrow
  \/ throw_exception_flags
  \/ throw_exception_bpstat
  \/ throw_exception_display
  \/ throw_exception_cleanups
  \/ throw_exception_state
  \/ throw_exception_store
  \/ throw_exception_longjmp
  \/ CatchPrint
  \/ CatchReturn
  \/ FuncResume

Spec == Init /\ [][Next]_vars

\* The program taken up where the operation of a first Catch, a
\* catch_exceptions_with_msg with any mask, has just been invoked.
InitNested ==
  \E mask \in Masks :
    LET g0 == [current_catcher |-> NULL, catchers |-> <<>>,
               uiout |-> "cli_uiout", cleanup_chain |-> <<>>]
        g1 == LET g == catcher_init(g0, "mi_uiout", 2, mask)
              IN SetState([g EXCEPT !.catchers[g.current_catcher].buf = 2],
                          CATCHER_RUNNING)
    IN /\ current_catcher = g1.current_catcher
       /\ catchers = g1.catchers
       /\ uiout = g1.uiout
       /\ cleanup_chain = g1.cleanup_chain
       /\ callstack =
            <<Frame("func", "run"),
              [Frame("catch_exceptions_with_msg", "call") EXCEPT
                 !.mask = mask, !.func_uiout = "mi_uiout", !.gdberrmsg = TRUE,
                 !.entry = g0, !.ran = 1,
                 !.sm = SmCall(g1, CATCH_ITER, SmReturn(g1, 1))],
              Frame("func", "run")>>
       /\ last_message = [id |-> NULL, text |-> NullText]
       /\ outcome = Running
       /\ printed = <<>>
       /\ cleanups_done = {}
       /\ ncalls = 1
       /\ ncleanups = 0
       /\ pending = NoPending
       /\ quit_flag = 0
       /\ immediate_quit = 0
       /\ stop_bpstat = <<>>
       /\ current_display = -1

\* The program keeps running: one thread of control, which takes its next
\* step whenever it has one.
FairSpec == InitNested /\ [][Next]_vars /\ WF_vars(Next)

\* The same program entered with a cleanup already established by its
\* caller (cleanup 0), so that a cleanup older than every catcher and one
\* made under a catcher can be pending together.
InitCleanup ==
  /\ current_catcher = NULL
  /\ catchers = <<>>
  /\ uiout = "cli_uiout"
  /\ cleanup_chain = <<0>>
  /\ last_message = [id |-> NULL, text |-> NullText]
  /\ callstack = <<Frame("func", "run")>>
  /\ outcome = Running
  /\ printed = <<>>
  /\ cleanups_done = {}
  /\ ncalls = 0
  /\ ncleanups = 0
  /\ pending = NoPending
  /\ quit_flag = 0
  /\ immediate_quit = 0
  /\ stop_bpstat = <<>>
  /\ current_display = -1

SpecCleanup == InitCleanup /\ [][Next]_vars

\* ------------------------------------- the state machine on its own
\* catcher_state_machine driven with every action in every state it can be
\* brought to.  It starts where a Catch entry point, called with no catcher
\* or under one running catcher, is back from catcher_init and SIGSETJMP.
InitSM ==
  \E mask \in Masks, func_uiout \in Sinks, old_uiout \in Sinks,
     chain \in {<<>>, <<1>>}, outer \in Masks \cup {0} :
    LET g0 == [current_catcher |-> NULL, catchers |-> <<>>,
               uiout |-> old_uiout, cleanup_chain |-> chain]
        g1 == IF outer = 0 THEN g0
              ELSE LET g == catcher_init(g0, old_uiout, 2, outer)
                   IN SetState([g EXCEPT !.catchers[g.current_catcher].buf = 2],
                               CATCHER_RUNNING)
        me == IF outer = 0 THEN 2 ELSE 4
        g2 == LET g == catcher_init(g1, func_uiout, me, mask)
              IN [g EXCEPT !.catchers[g.current_catcher].buf = me]
        entry(g) == [current_catcher |-> g.current_catcher,
                     catchers |-> g.catchers, uiout |-> g.uiout,
                     cleanup_chain |-> g.cleanup_chain]
        inner == [Frame("catch_exception", "loop") EXCEPT
                    !.mask = mask, !.func_uiout = func_uiout, !.entry = entry(g1)]
    IN /\ current_catcher = g2.current_catcher
       /\ catchers = g2.catchers
       /\ uiout = g2.uiout
       /\ cleanup_chain = g2.cleanup_chain
       /\ callstack =
            IF outer = 0 THEN <<Frame("func", "run"), inner>>
            ELSE <<Frame("func", "run"),
                   [Frame("catch_exception", "call") EXCEPT
                      !.mask = outer, !.func_uiout = old_uiout,
                      !.entry = entry(g0), !.ran = 1,
                      !.sm = SmCall(g1, CATCH_ITER,
                                    SmReturn(g1, 1)) ],
                   Frame("func", "run"), inner>>
       /\ last_message = [id |-> NULL, text |-> NullText]
       /\ outcome = Running
       /\ printed = <<>>
       /\ cleanups_done = {}
       /\ ncalls = IF outer = 0 THEN 1 ELSE 2
       /\ ncleanups = Len(chain)
       /\ pending = NoPending
       /\ quit_flag = 0
       /\ immediate_quit = 0
       /\ stop_bpstat = <<>>
       /\ current_display = -1

\* One call catcher_state_machine (action) by the function that owns the top
\* catcher, at its loop.  With CATCH_THROWING the call is throw_exception's,
\* which then stores e in the slot and jumps back to the loop; CATCH_ITER
\* returning 0 ends the drive loop; CATCH_ITER_1 is the condition of an
\* inner loop, which goes on to the outer one when it ends.
SmDrive(action, e) ==
  /\ Live
  /\ top.fn \in CatchFns
  /\ top.pc = "loop"
  /\ LET r == catcher_state_machine(Globals, callstack, action)
         called == [callstack EXCEPT ![Top].sm = SmCall(Globals, action, r)]
     IN /\ SetGlobals(r.g)
        /\ CASE r.kind = "return" ->
                  /\ callstack' =
                       [called EXCEPT
                          ![Top].exception =
                             IF action = CATCH_THROWING THEN e ELSE @,
                          ![Top].pc =
                             IF action = CATCH_ITER /\ r.ret = 0
                             THEN "return" ELSE @]
                  /\ outcome' = outcome
             [] r.kind = "throw_exception" ->
                  /\ callstack' = [called EXCEPT ![Top].pc = "throw_exception",
                                                 ![Top].thrown = r.exception]
                  /\ outcome' = outcome
             [] OTHER ->
                  /\ callstack' = called
                  /\ outcome' = internal_error(r.msg)
  /\ UNCHANGED <<last_message, printed, cleanups_done, ncalls, ncleanups, pending>>
  /\ UNCHANGED hooks

SmIter == SmDrive(CATCH_ITER, exception_none)
SmIter1 == SmDrive(CATCH_ITER_1, exception_none)
SmThrowing == \E reason \in Reasons :
                SmDrive(CATCH_THROWING, throw_reason_exception(reason))

NextSM ==
  \/ SmIter
  \/ SmIter1
  \/ SmThrowing

SpecSM == InitSM /\ [][NextSM]_vars

\* ------------------------------------- throw_exception on its own
\* throw_exception from its first statement to the jump, whatever the
\* globals it resets hold.  It starts where the operation of a Catch has
\* called throw_reason, which has called throw_exception.
InitThrow ==
  \E mask \in Masks, reason \in Reasons, saved \in {<<>>, <<1>>},
     chain \in {<<>>, <<2>>}, qf \in {0, 1}, iq \in {0, 1},
     bs \in {<<>>, <<"commands">>}, d \in {-1, 1} :
    LET g0 == [current_catcher |-> NULL, catchers |-> <<>>,
               uiout |-> "cli_uiout", cleanup_chain |-> saved]
        g1 == LET g == catcher_init(g0, "mi_uiout", 2, mask)
              IN SetState([g EXCEPT !.catchers[g.current_catcher].buf = 2],
                          CATCHER_RUNNING)
        catch == [Frame("catch_errors", "call") EXCEPT
                    !.mask = mask, !.func_uiout = "mi_uiout",
                    !.errstring = "Error: ", !.entry = g0, !.ran = 1,
                    !.sm = SmCall(g1, CATCH_ITER, SmReturn(g1, 1))]
        e == throw_reason_exception(reason)
        before == <<Frame("func", "run"), catch, Frame("func", "run")>>
    IN /\ current_catcher = g1.current_catcher
       /\ catchers = g1.catchers
       /\ uiout = g1.uiout
       /\ cleanup_chain = chain
       /\ callstack = [before EXCEPT ![3].pc = "throw_exception",
                                     ![3].thrown = e]
       /\ last_message = [id |-> NULL, text |-> NullText]
       /\ outcome = Running
       /\ printed = <<>>
       /\ cleanups_done = {}
       /\ ncalls = 1
       /\ ncleanups = Len(saved) + Len(chain)
       /\ pending =
            [active |-> TRUE, exception |-> e, text |-> NullText,
             target |-> LET c == Claimer(g1.catchers, g1.current_catcher, reason)
                        IN IF c = NULL THEN 0 ELSE g1.catchers[c].exception,
             current_catcher |-> g1.current_catcher, catchers |-> g1.catchers,
             callstack |-> before]
       /\ quit_flag = qf
       /\ immediate_quit = iq
       /\ stop_bpstat = bs
       /\ current_display = d

NextThrow ==
  \/ throw_exception_flags
  \/ throw_exception_bpstat
  \/ throw_exception_display
  \/ throw_exception_cleanups
  \/ throw_exception_state
  \/ throw_exception_store
  \/ throw_exception_longjmp

SpecThrow == InitThrow /\ [][NextThrow]_vars

\* ------------------------------------------------------------- claims
\* A Catch entry point has just returned to its caller.
Returned == Live /\ top.fn = "func" /\ top.pc = "after_catch"
\* ... and the throw in flight was claimed by that Catch (its activation
\* was the one above the caller).
Claimed == Returned /\ pending.active /\ pending.target = Top + 1

\* C1: whenever a Catch entry point returns to its caller, current_catcher
\* is what it was when the Catch was called, and the allocated catchers are
\* the ones allocated then, unchanged: no frame leaked, none missing.
C1_StackTopRestored ==
  Returned =>
    /\ current_catcher = top.ret.entry.current_catcher
    /\ catchers = top.ret.entry.catchers

\* A nested Catch returned after claiming a throw.
C1_Witness ==
  /\ Returned
  /\ top.ret.slot.reason < 0
  /\ top.ret.entry.current_catcher # NULL
  /\ current_catcher = top.ret.entry.current_catcher

\* C5: while the protected operation of a Catch runs, uiout is the sink the
\* Catch was given; once the Catch has returned, uiout is what it was when
\* the Catch was called.
C5_UioutSwappedAndRestored ==
  /\ (Live /\ top.fn = "func" /\ Top > 1) => uiout = callstack[Top - 1].func_uiout
  /\ Returned => uiout = top.ret.entry.uiout

\* A Catch given another sink than the current one returned after a throw.
C5_Witness ==
  /\ Returned
  /\ top.ret.slot.reason < 0
  /\ top.ret.func_uiout # top.ret.entry.uiout
  /\ uiout = top.ret.entry.uiout

\* C9: a Catch whose protected operation is running has the slot `none'
\* until a throw_exception stores into it, and a Catch that returns without
\* having claimed a throw returns with the slot still `none'.
C9_FreshSlot ==
  /\ \A i \in 1..Top :
       (callstack[i].fn \in CatchFns /\ callstack[i].pc = "call")
         => \/ callstack[i].exception = exception_none
            \/ /\ top.pc = "longjmp"
               /\ catchers[current_catcher].exception = i
  /\ (Returned /\ ~Claimed) => top.ret.slot = exception_none

\* The second of two sequential Catch calls runs its operation after the
\* first one caught a formatted throw.
C9_Witness ==
  /\ Live
  /\ ncalls = 2
  /\ Top = 3
  /\ callstack[2].pc = "call"
  /\ top.pc = "run"
  /\ last_message.id # NULL
  /\ callstack[2].exception = exception_none

\* C2: the first Catch to return with an exception in its slot after a
\* throw is the innermost one, from the thrower outwards, whose mask
\* contains the reason; it holds the exception thrown; and every catcher
\* enclosing it (frame, slot, place in its activation) is as it was when the
\* throw began.
C2_InnermostClaimerFirst ==
  (Returned /\ top.ret.slot.reason < 0) =>
    /\ Claimed
    /\ top.ret.slot = pending.exception
    /\ LET c == Claimer(pending.catchers, pending.current_catcher,
                        pending.exception.reason)
       IN /\ current_catcher = pending.catchers[c].prev
          /\ DOMAIN catchers \subseteq DOMAIN pending.catchers
          /\ \A id \in DOMAIN catchers : catchers[id] = pending.catchers[id]
    /\ \A i \in 1..Top :
         callstack[i].fn \in CatchFns =>
           /\ callstack[i].exception = pending.callstack[i].exception
           /\ callstack[i].pc = pending.callstack[i].pc

\* The inner of two nested Catches did not claim the throw and the outer
\* one did, and has returned.
C2_Witness ==
  /\ Returned
  /\ top.ret.slot.reason < 0
  /\ Top = 1
  /\ Len(pending.callstack) = 5
  /\ ~Claims(pending.callstack[4].mask, pending.exception.reason)

\* Where a function is while it is inside throw_exception.
ThrowPcs ==
  {"throw_exception", "bpstat_clear_actions", "disable_current_display",
   "do_cleanups", "catcher_state_machine", "store", "longjmp"}

\* The top catcher is ABORTING, its Catch is at the loop condition, and its
\* mask does not contain the reason in its slot.
RelayCase ==
  /\ Live
  /\ top.fn \in CatchFns
  /\ top.pc = "loop"
  /\ catchers[current_catcher].state = CATCHER_ABORTING
  /\ BitAnd(top.mask, RETURN_MASK(top.exception.reason)) = 0

\* C3: in RelayCase the next step pops that one frame and has the same
\* Catch call throw_exception with the exception of its slot, without
\* returning; no step of throw_exception pops a frame; every slot a throw
\* has stored into holds the exception the throw began with; and a Catch
\* that returns with an exception is one whose mask contains its reason.
C3_Relay ==
  /\ [][RelayCase =>
          /\ current_catcher' = catchers[current_catcher].prev
          /\ DOMAIN catchers' = DOMAIN catchers \ {current_catcher}
          /\ \A id \in DOMAIN catchers' : catchers'[id] = catchers[id]
          /\ Len(callstack') = Top
          /\ callstack'[Top].pc = "throw_exception"
          /\ callstack'[Top].thrown = top.exception
          /\ outcome' = Running]_vars
  /\ [][(Live /\ top.pc \in ThrowPcs) =>
          /\ current_catcher' = current_catcher
          /\ DOMAIN catchers' = DOMAIN catchers]_vars
  /\ [](\A i \in 1..Top :
          (callstack[i].fn \in CatchFns /\ callstack[i].pc # "catcher_init"
             /\ callstack[i].exception # exception_none)
            => (pending.active /\ callstack[i].exception = pending.exception))
  /\ []((Returned /\ top.ret.slot.reason < 0)
          => BitAnd(top.ret.mask, RETURN_MASK(top.ret.slot.reason)) # 0)

\* Two nested RETURN_MASK_ERROR catchers and a quit: both frames are popped
\* and the outer Catch is relaying with no catcher left.
C3_Witness ==
  /\ Live
  /\ Top = 2
  /\ top.fn \in CatchFns
  /\ top.pc = "throw_exception"
  /\ top.thrown = pending.exception
  /\ top.thrown.reason = RETURN_QUIT
  /\ current_catcher = NULL
  /\ Len(pending.callstack) = 5
  /\ pending.callstack[2].mask = RETURN_MASK_ERROR
  /\ pending.callstack[4].mask = RETURN_MASK_ERROR

\* C4: a throw_exception that finds no catcher ends in internal_error.
C4_EmptyStackThrowDiagnosed ==
  (~Live /\ current_catcher = NULL /\ top.pc = "catcher_state_machine")
    => outcome.kind = "internal_error"

\* C6: a function inside throw_exception, with a catcher on the stack,
\* either takes the next step of throw_exception, every other activation
\* standing still, or jumps: the stack is cut to the activation that set
\* the top catcher's buf, below the thrower, which is at the loop condition
\* with that catcher ABORTING.  It never gets back to its own code.
C6_ThrowNeverReturns ==
  [][(Live /\ top.pc \in ThrowPcs /\ current_catcher # NULL) =>
       \/ /\ top.pc # "longjmp"
          /\ Len(callstack') = Top
          /\ callstack'[Top].pc \in ThrowPcs \ {top.pc}
          /\ \A i \in 1..(Top - 1) : callstack'[i].pc = callstack[i].pc
          /\ outcome' = Running
       \/ /\ top.pc = "longjmp"
          /\ Len(callstack') = catchers[current_catcher].buf
          /\ Len(callstack') < Top
          /\ callstack'[Len(callstack')].fn \in CatchFns
          /\ callstack'[Len(callstack')].pc = "loop"
          /\ current_catcher' = current_catcher
          /\ catchers'[current_catcher'].state = CATCHER_ABORTING
          /\ catchers'[current_catcher'].exception = Len(callstack')
          /\ callstack'[Len(callstack')].exception = top.thrown
          /\ outcome' = Running]_vars

\* A throw relayed by the inner Catch has landed in the outer one, two
\* operations and a Catch below the function that threw.
C6_Witness ==
  /\ Live
  /\ Top = 2
  /\ top.pc = "loop"
  /\ catchers[current_catcher].state = CATCHER_ABORTING
  /\ Len(pending.callstack) = 5

\* C7: catch_exceptions_with_msg returns the reason of the exception
\* thrown (negative) when it claimed a throw, and then *gdberrmsg, if the
\* caller gave one, is the text the exception was thrown with (NULL if it
\* had none); otherwise it returns what the operation returned and leaves
\* *gdberrmsg alone.
C7_WithMsgResult ==
  (Returned /\ top.ret.fn = "catch_exceptions_with_msg") =>
    IF Claimed
    THEN /\ top.ret.val = pending.exception.reason
         /\ top.ret.val < 0
         /\ top.ret.gdberrmsg = IF top.ret.want_msg THEN pending.text ELSE Unset
    ELSE /\ top.ret.ran = 1
         /\ top.ret.val = top.ret.opval
         /\ top.ret.gdberrmsg = Unset

\* throw_error (GENERIC_ERROR, ...) of "bad value" under RETURN_MASK_ALL.
C7_Witness ==
  /\ Claimed
  /\ top.ret.fn = "catch_exceptions_with_msg"
  /\ top.ret.mask = RETURN_MASK_ALL
  /\ pending.exception.error = GENERIC_ERROR
  /\ top.ret.val = RETURN_ERROR
  /\ top.ret.gdberrmsg = "bad value"

\* C8 as claimed: neither gdb_assert of catch_exceptions_with_msg ever
\* fails.
C8_AssertionsNeverFail ==
  outcome.kind = "internal_error"
    => outcome.msg \notin {"val >= 0", "exception.reason <= 0"}

\* C8 as amended: exception.reason <= 0 holds whenever the drive loop of
\* catch_exceptions_with_msg has finished, and val >= 0 holds then unless
\* the operation returned a negative value, which is the one way the
\* assertion fails.
C8_AssertionsUnlessNegativeReturn ==
  /\ \A i \in 1..Top :
       (callstack[i].fn = "catch_exceptions_with_msg"
          /\ callstack[i].pc \in {"print", "return"})
         => /\ gdb_assert_reason(callstack[i].exception)
            /\ (callstack[i].opval >= 0 => gdb_assert_val(callstack[i].val))
  /\ (outcome.kind = "internal_error" /\ top.fn = "catch_exceptions_with_msg"
        /\ top.pc = "return")
       => /\ outcome.msg = "val >= 0"
          /\ top.opval < 0
          /\ top.val = top.opval
          /\ top.exception = exception_none

\* catch_exceptions_with_msg is past its loop with a claimed exception.
C8_Witness ==
  /\ Live
  /\ top.fn = "catch_exceptions_with_msg"
  /\ top.pc = "return"
  /\ top.exception.reason < 0
  /\ top.val = 0

\* C10: catch_errors returns 0 when it claimed a throw, and otherwise a
\* value that is non-zero exactly when what the operation returned is.
C10_CatchErrorsTruth ==
  (Returned /\ top.ret.fn = "catch_errors") =>
    IF Claimed
    THEN top.ret.val = 0
    ELSE /\ top.ret.ran = 1
         /\ (top.ret.val # 0) = (top.ret.opval # 0)

\* catch_errors returned true for an operation that returned -1.
C10_Witness ==
  /\ Returned
  /\ top.ret.fn = "catch_errors"
  /\ top.ret.opval = -1
  /\ top.ret.val # 0

\* C11: catch_command_errors returns 0 exactly when it returns with an
\* exception in its slot, which is exactly when it claimed a throw (so the
\* reason is in its mask); otherwise the command ran once, to its end, and
\* the result is 1.
C11_CommandErrorsResult ==
  (Returned /\ top.ret.fn = "catch_command_errors") =>
    /\ top.ret.val \in {0, 1}
    /\ (top.ret.val = 0) = (top.ret.slot.reason < 0)
    /\ (top.ret.val = 0) = Claimed
    /\ top.ret.val = 0 => Claims(top.ret.mask, top.ret.slot.reason)
    /\ top.ret.val = 1 => top.ret.ran = 1

\* catch_command_errors with RETURN_MASK_QUIT returned false for a quit.
C11_Witness ==
  /\ Claimed
  /\ top.ret.fn = "catch_command_errors"
  /\ top.ret.mask = RETURN_MASK_QUIT
  /\ top.ret.slot.reason = RETURN_QUIT
  /\ top.ret.val = 0

\* The exception values the mechanism has built or stored: the slot of every
\* Catch past catcher_init and the argument of every throw_exception under
\* way (from throw_reason, throw_it, a relay or a caller's re-throw).
ExceptionValues ==
  {callstack[i].exception :
     i \in {j \in 1..Top : callstack[j].fn \in CatchFns
                            /\ callstack[j].pc # "catcher_init"}}
  \cup {callstack[i].thrown : i \in {j \in 1..Top : callstack[j].pc \in ThrowPcs}}

\* C12 as claimed: in every exception value built or stored, reason is 0
\* exactly when there is no message, exactly when no exception is pending.
C12_ReasonZeroIffNoMessage ==
  \A e \in ExceptionValues :
    /\ (e.reason = 0) = (e.message = NULL)
    /\ (e.reason = 0) = (e = exception_none)

\* C12 as amended: in every exception value built or stored, reason is 0
\* exactly when the value is `none' (no exception pending), and then there
\* is no message; a negative reason is the exception of the throw in
\* flight, with a message when a formatted throw built it and without one,
\* with the error kind throw_reason gives, otherwise.
C12_ReasonZeroIffNone ==
  \A e \in ExceptionValues :
    /\ e.reason \in Reasons \cup {0}
    /\ (e.reason = 0) = (e = exception_none)
    /\ e.message # NULL => e.reason < 0
    /\ e.reason < 0 => (pending.active /\ e = pending.exception)
    /\ (e.reason < 0 /\ e.message = NULL)
         => e.error = throw_reason_exception(e.reason).error

\* A Catch is back at its loop condition with an exception from
\* throw_reason in its slot: an error without a message.
C12_Witness ==
  /\ Live
  /\ top.fn \in CatchFns
  /\ top.pc = "loop"
  /\ top.exception = throw_reason_exception(RETURN_ERROR)
  /\ top.exception.message = NULL

\* C13: the message of an exception catch_exception has delivered to its
\* caller reads as the text it was thrown with, for as long as the caller
\* holds it.
C13_DeliveredMessageStable ==
  \A i \in 1..Top :
    callstack[i].held.message # NULL
      => Deref(callstack[i].held.message) = {callstack[i].held_text}

\* The Catch entry points that call print_any_exception.
PrintingFns == CatchFns \ {"catch_exception"}
\* The Catch that claims the throw in flight is past its print.
ClaimerPrinted ==
  \/ Top = pending.target /\ top.pc = "return"
  \/ Claimed

\* C14 as claimed: a printing Catch that returns after claiming a throw has
\* printed the exception exactly once.
C14_PrintedExactlyOnce ==
  (Claimed /\ top.ret.fn \in PrintingFns) => Len(printed) = 1

\* C14 as amended: from the call of a throw primitive until the claiming
\* Catch is past its loop nothing is printed (no relaying Catch prints);
\* the claiming Catch is at its print with its frame popped; and once a
\* printing Catch is past its print the output is one line with the text
\* thrown if the exception has a message, and nothing if it has none.
C14_PrintedOnceIfMessage ==
  /\ (Live /\ pending.active /\ ~ClaimerPrinted) => printed = <<>>
  /\ (Live /\ top.fn \in CatchFns /\ top.pc \in {"print", "return"})
       => /\ current_catcher = top.entry.current_catcher
          /\ catchers = top.entry.catchers
  /\ (Live /\ pending.active /\ ClaimerPrinted)
       => LET a == IF Claimed THEN top.ret ELSE top
              e == IF Claimed THEN top.ret.slot ELSE top.exception
          IN printed =
               IF a.fn \in PrintingFns /\ e.message # NULL
               THEN <<[prefix |-> IF a.fn = "catch_errors" THEN "Error: " ELSE "",
                       text |-> pending.text,
                       annotate |-> IF pending.exception.reason = RETURN_QUIT
                                    THEN "quit" ELSE "error"]>>
               ELSE <<>>

\* A formatted error thrown under two nested printing Catches, relayed by
\* the inner one and claimed by the outer one, which has returned with one
\* line printed.
C14_Witness ==
  /\ Claimed
  /\ top.ret.fn \in PrintingFns
  /\ Top = 1
  /\ Len(pending.callstack) = 5
  /\ pending.callstack[4].fn \in PrintingFns
  /\ Len(printed) = 1
  /\ printed[1].text = "bad value"

\* What the last call of catcher_state_machine by the running function did.
SmStopped == top.sm.kind = "return" /\ top.sm.ret = 0
SmContinued == top.sm.kind = "return" /\ top.sm.ret # 0
SmRelayed == top.sm.kind = "throw_exception"
SmFailed == top.sm.kind = "internal_error"
\* The catcher on top when it was called is gone, and nothing else.
SmPopped ==
  /\ current_catcher = top.sm.catchers[top.sm.current_catcher].prev
  /\ DOMAIN catchers = DOMAIN top.sm.catchers \ {top.sm.current_catcher}
  /\ \A id \in DOMAIN catchers : catchers[id] = top.sm.catchers[id]
\* The catcher stack is the one it was called with.
SmKept ==
  /\ current_catcher = top.sm.current_catcher
  /\ DOMAIN catchers = DOMAIN top.sm.catchers

\* C15 as claimed: whenever catcher_state_machine returns 0 or relays, the
\* catcher that was on top when it was called has been popped, once.
C15_StopOrRelayPops ==
  (SmStopped \/ SmRelayed) => SmPopped

\* C15 as amended: catcher_state_machine has popped the catcher that was on
\* top, once, whenever it relays and whenever it returns 0 to CATCH_ITER;
\* it returns 0 to CATCH_ITER_1 in RUNNING_1 with the catcher still on top,
\* in state RUNNING; and it pops nothing when it returns non-zero or fails.
C15_StopOfIterOrRelayPops ==
  /\ ((SmStopped /\ top.sm.action = CATCH_ITER) \/ SmRelayed) => SmPopped
  /\ (SmStopped /\ top.sm.action # CATCH_ITER)
       => /\ top.sm.action = CATCH_ITER_1
          /\ top.sm.state = CATCHER_RUNNING_1
          /\ SmKept
          /\ catchers[current_catcher].state = CATCHER_RUNNING
  /\ (SmContinued \/ SmFailed) => SmKept

\* A nested catcher in state ABORTING whose mask does not contain the
\* reason in its slot was driven with CATCH_ITER: popped and relayed, the
\* outer catcher on top.
C15_Witness ==
  /\ SmRelayed
  /\ top.sm.state = CATCHER_ABORTING
  /\ top.sm.catchers[top.sm.current_catcher].prev # NULL
  /\ current_catcher = top.sm.catchers[top.sm.current_catcher].prev
  /\ top.thrown.reason = RETURN_QUIT

\* The catcher stack is the one catcher_state_machine was called with, but
\* for the state of the top catcher, now st.
SmMovedTo(st) ==
  /\ current_catcher = top.sm.current_catcher
  /\ catchers = [top.sm.catchers EXCEPT ![top.sm.current_catcher].state = st]

\* C16: what a call of catcher_state_machine did is what the transition
\* table gives for the state it found and the action it was given, for each
\* of the twelve pairs; the four pairs outside the table end in
\* internal_error with the catcher stack untouched.
C16_TransitionTable ==
  top.sm.kind # "none" =>
    LET st == top.sm.state
        action == top.sm.action
        mask == top.sm.catchers[top.sm.current_catcher].mask
    IN CASE st = CATCHER_CREATED /\ action = CATCH_ITER ->
              SmContinued /\ SmMovedTo(CATCHER_RUNNING)
         [] st = CATCHER_RUNNING /\ action = CATCH_ITER ->
              SmStopped /\ SmPopped
         [] st = CATCHER_RUNNING /\ action = CATCH_ITER_1 ->
              SmContinued /\ SmMovedTo(CATCHER_RUNNING_1)
         [] st = CATCHER_RUNNING /\ action = CATCH_THROWING ->
              SmContinued /\ SmMovedTo(CATCHER_ABORTING)
         [] st = CATCHER_RUNNING_1 /\ action = CATCH_ITER ->
              SmStopped /\ SmPopped
         [] st = CATCHER_RUNNING_1 /\ action = CATCH_ITER_1 ->
              SmStopped /\ SmMovedTo(CATCHER_RUNNING)
         [] st = CATCHER_RUNNING_1 /\ action = CATCH_THROWING ->
              SmContinued /\ SmMovedTo(CATCHER_ABORTING)
         [] st = CATCHER_ABORTING /\ action = CATCH_ITER ->
              /\ SmPopped
              /\ IF BitAnd(mask, RETURN_MASK(top.exception.reason)) # 0
                 THEN SmStopped /\ outcome = Running
                 ELSE SmRelayed /\ top.thrown = top.exception
                      /\ top.pc = "throw_exception"
         [] OTHER ->
              /\ st \in {CATCHER_CREATED, CATCHER_ABORTING}
              /\ SmFailed
              /\ outcome.kind = "internal_error"
              /\ SmMovedTo(st)

\* CATCH_THROWING driven on a catcher that is already ABORTING.
C16_Witness ==
  /\ SmFailed
  /\ top.sm.state = CATCHER_ABORTING
  /\ top.sm.action = CATCH_THROWING
  /\ catchers[current_catcher].state = CATCHER_ABORTING
  /\ outcome = internal_error("bad state")

\* The slot of the top catcher.
TopSlot(stack) == stack[catchers[current_catcher].exception].exception
\* What a statement of throw_exception leaves alone: the resets, the
\* cleanups, the catchers and the slot.
ResetsKept == UNCHANGED <<quit_flag, immediate_quit, stop_bpstat, current_display>>
CleanupsKept == UNCHANGED <<cleanup_chain, cleanups_done>>
CatchersKept ==
  /\ UNCHANGED <<current_catcher, catchers>>
  /\ TopSlot(callstack') = TopSlot(callstack)

\* C17: each step of a throw_exception under a catcher is the next of:
\* clear quit_flag and immediate_quit; discard the queued breakpoint
\* commands; disable the current display; run the cleanups; take the top
\* catcher from RUNNING (or RUNNING_1) to ABORTING; store the exception in
\* its slot; jump to its buf.  Each step changes only what is its own: no
\* cleanup runs from the transition on, and the store finds the catcher
\* ABORTING and the slot not yet written.
C17_ThrowOrder ==
  [][(Live /\ top.pc \in ThrowPcs /\ current_catcher # NULL) =>
       CASE top.pc = "throw_exception" ->
              /\ quit_flag' = 0 /\ immediate_quit' = 0
              /\ UNCHANGED <<stop_bpstat, current_display>>
              /\ CleanupsKept /\ CatchersKept
              /\ callstack'[Top].pc = "bpstat_clear_actions"
         [] top.pc = "bpstat_clear_actions" ->
              /\ stop_bpstat' = <<>>
              /\ UNCHANGED <<quit_flag, immediate_quit, current_display>>
              /\ CleanupsKept /\ CatchersKept
              /\ callstack'[Top].pc = "disable_current_display"
         [] top.pc = "disable_current_display" ->
              /\ current_display' = -1
              /\ UNCHANGED <<quit_flag, immediate_quit, stop_bpstat>>
              /\ CleanupsKept /\ CatchersKept
              /\ callstack'[Top].pc = "do_cleanups"
         [] top.pc = "do_cleanups" ->
              /\ cleanup_chain' = <<>>
              /\ cleanups_done' =
                   cleanups_done \cup {cleanup_chain[i] : i \in DOMAIN cleanup_chain}
              /\ ResetsKept /\ CatchersKept
              /\ callstack'[Top].pc = "catcher_state_machine"
         [] top.pc = "catcher_state_machine" ->
              /\ catchers[current_catcher].state
                   \in {CATCHER_RUNNING, CATCHER_RUNNING_1}
              /\ catchers' =
                   [catchers EXCEPT ![current_catcher].state = CATCHER_ABORTING]
              /\ current_catcher' = current_catcher
              /\ TopSlot(callstack') = TopSlot(callstack)
              /\ TopSlot(callstack) = exception_none
              /\ ResetsKept /\ CleanupsKept
              /\ callstack'[Top].pc = "store"
         [] top.pc = "store" ->
              /\ catchers[current_catcher].state = CATCHER_ABORTING
              /\ TopSlot(callstack) = exception_none
              /\ TopSlot(callstack') = top.thrown
              /\ UNCHANGED <<current_catcher, catchers>>
              /\ ResetsKept /\ CleanupsKept
              /\ callstack'[Top].pc = "longjmp"
         [] OTHER ->
              /\ Len(callstack') = catchers[current_catcher].buf
              /\ callstack'[Len(callstack')].pc = "loop"
              /\ ResetsKept /\ CleanupsKept /\ CatchersKept
              /\ quit_flag = 0 /\ immediate_quit = 0
              /\ stop_bpstat = <<>> /\ current_display = -1
              /\ cleanup_chain = <<>>]_vars

\* A throw_exception is about to store: the resets are done, the cleanup
\* it found has run, the catcher is ABORTING and its slot still `none'.
C17_Witness ==
  /\ Live
  /\ top.pc = "store"
  /\ top.thrown.reason < 0
  /\ catchers[current_catcher].state = CATCHER_ABORTING
  /\ TopSlot(callstack) = exception_none
  /\ cleanups_done = {2}
  /\ cleanup_chain = <<>>
  /\ quit_flag = 0

\* The cleanups of a chain.
Cleanups(chain) == {chain[i] : i \in DOMAIN chain}

CatchLevels == {2 * n : n \in 1..MaxCalls}
\* A Catch activation is at place i of the stack of the running process.
CatchAt(i) == Live /\ Len(callstack) >= i /\ callstack[i].fn \in CatchFns

\* Each Catch activation has invoked its operation at most once, and not
\* at all only before its first pass of the loop condition; a Catch that
\* returns has invoked it once.
OperationOnce ==
  /\ \A i \in 1..Top :
       callstack[i].fn \in CatchFns =>
         /\ callstack[i].ran \in {0, 1}
         /\ (callstack[i].ran = 0) =
              \/ callstack[i].pc = "catcher_init"
              \/ /\ callstack[i].pc = "loop"
                 /\ catchers[current_catcher].state = CATCHER_CREATED
  /\ Returned => top.ret.ran = 1

\* C19 as claimed, the part a finite run decides: the operation is invoked
\* exactly once, and the process never ends with a Catch still on the
\* stack but by a throw that no catcher claims.
C19_OnceAndNeverStuck ==
  /\ OperationOnce
  /\ ~Live => (current_catcher = NULL /\ top.pc = "catcher_state_machine")

\* C19 as amended: the operation is invoked exactly once; the process ends
\* only by a throw that no catcher claims or by the failed val >= 0
\* assertion of catch_exceptions_with_msg; and short of that every Catch
\* activation leaves the stack, by its return or by a jump past it.
C19_OnceAndEnds ==
  /\ []OperationOnce
  /\ [](~Live =>
          \/ current_catcher = NULL /\ top.pc = "catcher_state_machine"
          \/ /\ outcome = internal_error("val >= 0")
             /\ top.fn = "catch_exceptions_with_msg"
             /\ top.pc = "return")
  /\ \A i \in CatchLevels : CatchAt(i) ~> ~CatchAt(i)

\* The outer of two nested Catches has returned after the inner one
\* relayed a throw to it: both ran their operation once.
C19_Witness ==
  /\ Claimed
  /\ Top = 1
  /\ Len(pending.callstack) = 5
  /\ top.ret.ran = 1
  /\ pending.callstack[4].ran = 1

\* The Catch activation that owns the top catcher is the running function,
\* at its loop condition.
TopAtLoop ==
  /\ top.fn \in CatchFns
  /\ top.pc = "loop"
  /\ catchers[current_catcher].exception = Top

\* C20: every catcher below the top one is RUNNING; the top one is RUNNING
\* when throw_exception is about to drive CATCH_THROWING; a catcher is
\* CREATED only from catcher_init to the first loop test of its Catch, and
\* ABORTING only from the transition in throw_exception to the loop test
\* after the jump; no catcher is ever RUNNING_1; and internal_error ("bad
\* state" or "bad switch") happens with no catcher on the stack, if at all.
C20_StatesInUse ==
  /\ \A id \in DOMAIN catchers :
       LET st == catchers[id].state
       IN /\ id # current_catcher => st = CATCHER_RUNNING
          /\ st # CATCHER_RUNNING_1
          /\ st = CATCHER_CREATED => TopAtLoop
          /\ st = CATCHER_ABORTING
               => \/ TopAtLoop
                  \/ top.pc \in {"store", "longjmp"}
  /\ (Live /\ top.pc = "catcher_state_machine" /\ current_catcher # NULL)
       => catchers[current_catcher].state = CATCHER_RUNNING
  /\ (outcome.kind = "internal_error" /\ outcome.msg \in {"bad state", "bad switch"})
       => current_catcher = NULL

\* An inner catcher is ABORTING at its loop test after a throw, over an
\* outer one that is RUNNING.
C20_Witness ==
  /\ Live
  /\ TopAtLoop
  /\ catchers[current_catcher].state = CATCHER_ABORTING
  /\ catchers[current_catcher].prev # NULL
  /\ catchers[catchers[current_catcher].prev].state = CATCHER_RUNNING

====
